---- MODULE Spec2Model ----
(***************************************************************************)
(* Payroll subsystem of empcon_backend: pay-period lifecycle, the          *)
(* calculatePayroll run, the per-employee pay calculation and manual       *)
(* adjustments (PayrollService), with the holiday-eligibility predicate    *)
(* of HolidaysService.                                                     *)
(*                                                                         *)
(* Every handler is an async function: each `await prisma...` is a point   *)
(* where another request may run.  A handler is therefore a sequence of    *)
(* actions, one per database access that reads or writes the payroll       *)
(* tables; reads of the tables this subsystem never writes (User,          *)
(* TimeClock, StatutoryHoliday) are folded into the step that follows.     *)
(*                                                                         *)
(* Time is counted in ticks (TicksPerDay ticks to a UTC day, day 0 a       *)
(* Sunday).  Hours are exact rationals, stored as multiples of 1/HourUnit  *)
(* hour; money as multiples of 1/HourUnit currency unit.                   *)
(***************************************************************************)
EXTENDS Integers, Sequences, FiniteSets, TLC

\* ------------------------------------------------------------- bounds
MaxDate == 3
MaxRequests == 3
MaxPeriods == 2
MaxCalcId == 2
NumProcs == 2
MaxPayDay == 5

\* ---------------------------------------------------------- constants
TicksPerDay == 2
MinutesPerHour == 60
HourUnit == MinutesPerHour * 6
DaysPerWeek == 7
DailyRegularHours == 8
DailyDoubleHours == 12
WeeklyRegularHours == 40
EligibilityWindowDays == 30
EligibilityMinDays == 15

None == <<>>
Some(v) == <<v>>
IsSome(o) == o # <<>>
Val(o) == o[1]

Procs == 1..NumProcs
Dates == 0..MaxDate

PayPeriodStatus == {"DRAFT", "PROCESSING", "COMPLETED", "PAID"}
PayPeriodType == {"SEMI_MONTHLY", "BI_WEEKLY", "MONTHLY"}
ScheduleType == {"REGULAR", "OVERTIME", "HOLIDAY"}

\* ------------------------------------------ external, read-only tables
\* The payroll code only reads User, TimeClock (with its Schedule) and
\* StatutoryHoliday; no handler modelled here changes them.

\* model User: hireDate, terminationDate?, payRate?, overtimeEnabled
\* (u5 was hired 40 days before day 0 and left on day 0)
UserIds == <<"u1", "u2", "u3", "u4", "u5">>

users ==
    [u \in {"u1", "u2", "u3", "u4", "u5"} |->
        CASE u = "u1" -> [hireDate |-> 0, terminationDate |-> None,
                          payRate |-> Some(20), overtimeEnabled |-> TRUE]
          [] u = "u2" -> [hireDate |-> 0, terminationDate |-> Some(3),
                          payRate |-> Some(15), overtimeEnabled |-> FALSE]
          [] u = "u3" -> [hireDate |-> 0, terminationDate |-> None,
                          payRate |-> None, overtimeEnabled |-> TRUE]
          [] u = "u4" -> [hireDate |-> 0, terminationDate |-> None,
                          payRate |-> Some(0), overtimeEnabled |-> TRUE]
          [] u = "u5" -> [hireDate |-> 0 - 40 * TicksPerDay,
                          terminationDate |-> Some(0),
                          payRate |-> Some(10), overtimeEnabled |-> TRUE]]

\* model Schedule, as selected through TimeClock.schedule
NoSchedule == None
Schedule(type, hol) == Some([scheduleType |-> type, isStatutoryHoliday |-> hol])

\* model TimeClock, in table order: u5 has worked on each of the
\* EligibilityMinDays days before day 0; u1 has one record still open, one
\* clocked out without a totalMinutes, one complete
timeClocks ==
    [i \in 1..EligibilityMinDays |->
        [userId |-> "u5", clockInTime |-> 0 - i * TicksPerDay,
         clockOutTime |-> Some(1 - i * TicksPerDay),
         totalMinutes |-> Some(480), schedule |-> NoSchedule]] \o
    << [userId |-> "u1", clockInTime |-> 1, clockOutTime |-> None,
        totalMinutes |-> None, schedule |-> NoSchedule],
       [userId |-> "u1", clockInTime |-> 0, clockOutTime |-> Some(1),
        totalMinutes |-> None, schedule |-> NoSchedule],
       [userId |-> "u1", clockInTime |-> 2, clockOutTime |-> Some(3),
        totalMinutes |-> Some(540), schedule |-> Schedule("REGULAR", FALSE)],
       [userId |-> "u2", clockInTime |-> 0, clockOutTime |-> Some(1),
        totalMinutes |-> Some(480), schedule |-> Schedule("OVERTIME", FALSE)],
       [userId |-> "u3", clockInTime |-> 1, clockOutTime |-> Some(2),
        totalMinutes |-> Some(60), schedule |-> NoSchedule],
       [userId |-> "u4", clockInTime |-> 1, clockOutTime |-> Some(2),
        totalMinutes |-> Some(60), schedule |-> NoSchedule] >>

\* model StatutoryHoliday: the dates (midnight ticks) in the table
holidays == {0}

\* ------------------------------------------------------------ helpers
Max(a, b) == IF a >= b THEN a ELSE b

\* The subsequence of s at the indices in keep, in order.
RECURSIVE SubSeqAt(_, _, _)
SubSeqAt(s, keep, i) ==
    IF i > Len(s) THEN <<>>
    ELSE (IF i \in keep THEN <<s[i]>> ELSE <<>>) \o SubSeqAt(s, keep, i + 1)

\* Date.toISOString().split("T")[0]: the UTC calendar day of a timestamp
DayOf(t) == t \div TicksPerDay
\* new Date("YYYY-MM-DD"): midnight UTC of a calendar day
DateOfDay(d) == d * TicksPerDay

\* getWeekStart(date).toISOString().split("T")[0]: the Sunday on or
\* before the day (server clock in UTC)
getWeekStart(t) == DayOf(t) - (DayOf(t) % DaysPerWeek)

\* -------------------------------------------- HolidaysService (part_008)
\* prisma.user.findUnique({where: {id: userId}}): the row, or nothing
FindUser(userId) ==
    IF userId \in DOMAIN users THEN Some(users[userId]) ELSE None

\* thirtyDaysBefore: holidayDate with its day of the month set back by 30
thirtyDaysBefore(holidayDate) ==
    holidayDate - EligibilityWindowDays * TicksPerDay

\* Faulty variant: every clock-in counts, two on one day count twice.
ClockInsWorked(clocks, userId, startDate, endDate) ==
    {j \in 1..Len(clocks) :
        /\ clocks[j].userId = userId
        /\ clocks[j].clockInTime >= startDate
        /\ clocks[j].clockInTime < endDate
        /\ IsSome(clocks[j].clockOutTime)}

\* daysWorked: the calendar days of the employee's completed clock-ins
\* with startDate <= clockInTime < endDate
DaysWorked(clocks, userId, startDate, endDate) ==
    {DayOf(clocks[i].clockInTime) : i \in
        {j \in 1..Len(clocks) :
            /\ clocks[j].userId = userId
            /\ clocks[j].clockInTime >= startDate
            /\ clocks[j].clockInTime < endDate
            /\ IsSome(clocks[j].clockOutTime)}}

\* The body of isEligibleForHolidayPay, over the user row that findUnique
\* returned and the TimeClock table it queries.
HolidayPayEligibility(user, clocks, userId, holidayDate) ==
    IF ~IsSome(user) THEN FALSE
    ELSE IF Val(user).hireDate > thirtyDaysBefore(holidayDate) THEN FALSE
    ELSE Cardinality(DaysWorked(clocks, userId,
                                thirtyDaysBefore(holidayDate), holidayDate))
            >= EligibilityMinDays

\* isEligibleForHolidayPay(userId, holidayDate)
isEligibleForHolidayPay(userId, holidayDate) ==
    HolidayPayEligibility(FindUser(userId), timeClocks, userId, holidayDate)

\* ------------------------------- PayrollService.calculateEmployeePay
\* tc.totalMinutes / 60, in units of 1/HourUnit hour
HoursOf(tc) == Val(tc.totalMinutes) * (HourUnit \div MinutesPerHour)
Hrs(h) == h * HourUnit

\* statutoryHoliday.findMany({date: {gte: startDate, lte: endDate}}),
\* mapped to day strings
HolidayDates(startDate, endDate) ==
    {DayOf(h) : h \in {x \in holidays : x >= startDate /\ x <= endDate}}

\* `if (!tc.clockOutTime || !tc.totalMinutes) continue`
SkippedClock(tc) ==
    \/ ~IsSome(tc.clockOutTime)
    \/ ~IsSome(tc.totalMinutes)
    \/ Val(tc.totalMinutes) = 0

\* Faulty variant: the schedule's flag is not looked at.
IsHolidayClockByDate(tc, holidayDates) ==
    DayOf(tc.clockInTime) \in holidayDates

\* `holidayDates.has(day) || (tc.schedule && tc.schedule.isStatutoryHoliday)`
IsHolidayClock(tc, holidayDates) ==
    \/ DayOf(tc.clockInTime) \in holidayDates
    \/ (IsSome(tc.schedule) /\ Val(tc.schedule).isStatutoryHoliday)

AddKey(keys, k) == IF \E i \in 1..Len(keys) : keys[i] = k THEN keys ELSE Append(keys, k)
AddTo(f, k, v) ==
    IF k \in DOMAIN f THEN [f EXCEPT ![k] = @ + v]
    ELSE [x \in DOMAIN f \cup {k} |-> IF x = k THEN v ELSE f[x]]

EmptyMap == [x \in {} |-> 0]

\* Step 1: the loop over the time clocks
RECURSIVE ClassifyPass(_, _, _, _, _)
ClassifyPass(userId, tcs, i, holidayDates, acc) ==
    IF i > Len(tcs) THEN acc
    ELSE LET tc == tcs[i] IN
         IF SkippedClock(tc) THEN ClassifyPass(userId, tcs, i + 1, holidayDates, acc)
         ELSE
         LET hours == HoursOf(tc)
             day == DayOf(tc.clockInTime)
             weekStart == getWeekStart(tc.clockInTime)
             a1 == [acc EXCEPT !.dayKeys = AddKey(@, day),
                               !.weekKeys = AddKey(@, weekStart),
                               !.dailyHours = AddTo(@, day, hours),
                               !.weeklyHours = AddTo(@, weekStart, hours)]
             a2 == IF IsHolidayClock(tc, holidayDates)
                   THEN IF isEligibleForHolidayPay(userId, DateOfDay(day))
                        THEN [a1 EXCEPT !.holidayHours = @ + hours]
                        ELSE [a1 EXCEPT !.regularHours = @ + hours]
                   ELSE IF IsSome(tc.schedule)
                           /\ Val(tc.schedule).scheduleType = "OVERTIME"
                        THEN [a1 EXCEPT !.overtimeHours = @ + hours]
                        ELSE [a1 EXCEPT !.regularHours = @ + hours]
         IN ClassifyPass(userId, tcs, i + 1, holidayDates, a2)

\* Faulty variant: the hours past 12 are weighted 1.5 like those before.
RECURSIVE DailyPassOneRate(_, _, _, _)
DailyPassOneRate(acc, holidayDates, i, r) ==
    IF i > Len(acc.dayKeys) THEN r
    ELSE LET day == acc.dayKeys[i]
             hoursForDay == acc.dailyHours[day]
         IN  IF day \in holidayDates THEN DailyPassOneRate(acc, holidayDates, i + 1, r)
             ELSE IF hoursForDay <= Hrs(DailyRegularHours)
             THEN DailyPassOneRate(acc, holidayDates, i + 1,
                    [r EXCEPT !.regularHours = @ + hoursForDay])
             ELSE DailyPassOneRate(acc, holidayDates, i + 1,
                    [r EXCEPT !.regularHours = @ + Hrs(DailyRegularHours),
                              !.overtimeHours = @ +
                                  ((hoursForDay - Hrs(DailyRegularHours)) * 3) \div 2])

\* Step 2a: `for (const day in dailyHours)`, in key insertion order
RECURSIVE DailyPass(_, _, _, _)
DailyPass(acc, holidayDates, i, r) ==
    IF i > Len(acc.dayKeys) THEN r
    ELSE LET day == acc.dayKeys[i]
             hoursForDay == acc.dailyHours[day]
         IN  IF day \in holidayDates THEN DailyPass(acc, holidayDates, i + 1, r)
             ELSE IF hoursForDay <= Hrs(DailyRegularHours)
             THEN DailyPass(acc, holidayDates, i + 1,
                    [r EXCEPT !.regularHours = @ + hoursForDay])
             ELSE IF hoursForDay <= Hrs(DailyDoubleHours)
             THEN DailyPass(acc, holidayDates, i + 1,
                    [r EXCEPT !.regularHours = @ + Hrs(DailyRegularHours),
                              !.overtimeHours = @ +
                                  ((hoursForDay - Hrs(DailyRegularHours)) * 3) \div 2])
             ELSE DailyPass(acc, holidayDates, i + 1,
                    [r EXCEPT !.regularHours = @ + Hrs(DailyRegularHours),
                              !.overtimeHours = @ +
                                  (Hrs(DailyDoubleHours - DailyRegularHours) * 3) \div 2
                                  + (hoursForDay - Hrs(DailyDoubleHours)) * 2])

\* Faulty variant: the overtime already found by the daily rule is not
\* set against the weekly excess.
RECURSIVE WeeklyPassNoCredit(_, _, _)
WeeklyPassNoCredit(acc, i, r) ==
    IF i > Len(acc.weekKeys) THEN r
    ELSE LET totalWeeklyHours == acc.weeklyHours[acc.weekKeys[i]]
             additionalWeeklyOT == totalWeeklyHours - Hrs(WeeklyRegularHours)
         IN  IF totalWeeklyHours > Hrs(WeeklyRegularHours)
             THEN WeeklyPassNoCredit(acc, i + 1,
                    [r EXCEPT !.overtimeHours = @ + (additionalWeeklyOT * 3) \div 2,
                              !.regularHours = @ - additionalWeeklyOT])
             ELSE WeeklyPassNoCredit(acc, i + 1, r)

\* Faulty variant: only the week met first is examined.
RECURSIVE WeeklyPassFirstOnly(_, _, _)
WeeklyPassFirstOnly(acc, i, r) ==
    IF i > Len(acc.weekKeys) \/ i > 1 THEN r
    ELSE LET totalWeeklyHours == acc.weeklyHours[acc.weekKeys[i]]
             weeklyOvertimeHours == totalWeeklyHours - Hrs(WeeklyRegularHours)
             additionalWeeklyOT ==
                 Max(0, weeklyOvertimeHours - (r.overtimeHours * 2) \div 3)
         IN  IF totalWeeklyHours > Hrs(WeeklyRegularHours) /\ additionalWeeklyOT > 0
             THEN WeeklyPassFirstOnly(acc, i + 1,
                    [r EXCEPT !.overtimeHours = @ + (additionalWeeklyOT * 3) \div 2,
                              !.regularHours = @ - additionalWeeklyOT])
             ELSE WeeklyPassFirstOnly(acc, i + 1, r)

\* Step 2b: `for (const weekStart in weeklyHours)`, in key insertion order
RECURSIVE WeeklyPass(_, _, _)
WeeklyPass(acc, i, r) ==
    IF i > Len(acc.weekKeys) THEN r
    ELSE LET totalWeeklyHours == acc.weeklyHours[acc.weekKeys[i]]
             weeklyOvertimeHours == totalWeeklyHours - Hrs(WeeklyRegularHours)
             additionalWeeklyOT ==
                 Max(0, weeklyOvertimeHours - (r.overtimeHours * 2) \div 3)
         IN  IF totalWeeklyHours > Hrs(WeeklyRegularHours) /\ additionalWeeklyOT > 0
             THEN WeeklyPass(acc, i + 1,
                    [r EXCEPT !.overtimeHours = @ + (additionalWeeklyOT * 3) \div 2,
                              !.regularHours = @ - additionalWeeklyOT])
             ELSE WeeklyPass(acc, i + 1, r)

\* Step 3: grossPay, in units of 1/HourUnit currency unit
GrossPay(r, hourlyRate) ==
    r.regularHours * hourlyRate
    + r.overtimeHours * hourlyRate
    + (r.holidayHours * hourlyRate * 3) \div 2

\* Step 2: `if (overtimeEnabled)`: regularHours and overtimeHours are reset
\* and rebuilt by the daily and the weekly pass
Reconcile(acc, holidayDates, overtimeEnabled) ==
    LET r1 == [regularHours |-> acc.regularHours,
               overtimeHours |-> acc.overtimeHours,
               holidayHours |-> acc.holidayHours]
    IN  IF overtimeEnabled
        THEN WeeklyPass(acc, 1,
               DailyPass(acc, holidayDates, 1,
                  [r1 EXCEPT !.regularHours = 0, !.overtimeHours = 0]))
        ELSE r1

\* `result`, as returned
PayResult(userId, r, hourlyRate) ==
    [userId |-> userId,
     regularHours |-> r.regularHours,
     overtimeHours |-> r.overtimeHours,
     holidayHours |-> r.holidayHours,
     grossPay |-> GrossPay(r, hourlyRate)]

\* The three steps in sequence; the outcome of each step is computed once
\* and handed to the next.
calculateEmployeePay(userId, tcs, hourlyRate, overtimeEnabled, startDate, endDate) ==
    LET holidayDates == HolidayDates(startDate, endDate)
    IN  CHOOSE result \in
            {PayResult(userId, r, hourlyRate) :
                r \in {Reconcile(acc, holidayDates, overtimeEnabled) :
                    acc \in {ClassifyPass(userId, tcs, 1, holidayDates,
                        [regularHours |-> 0, overtimeHours |-> 0,
                         holidayHours |-> 0,
                         dayKeys |-> <<>>, weekKeys |-> <<>>,
                         dailyHours |-> EmptyMap, weeklyHours |-> EmptyMap])}}} :
            TRUE

\* ------------------------------------------------ the payroll tables
\* periods: the PayPeriod rows; calcs: the PayCalculation rows in creation
\* order (a row's id is its index; `run` records the request that wrote
\* it); adjustments: the PayAdjustment rows in creation order.
\* nextId: PayPeriod ids handed out so far + 1; nreq: requests started.
\* proc[p]: the request process p is handling and where it is in it.
\* last: the outcome of the request that finished most recently.
VARIABLES periods, calcs, adjustments, nextId, nreq, proc, last

db == <<periods, calcs, adjustments, nextId>>
vars == <<periods, calcs, adjustments, nextId, nreq, proc, last>>

Idle == [pc |-> "idle"]
NoOutcome == [op |-> "none", id |-> 0, result |-> "none", ret |-> 0]

Init ==
    /\ periods = {}
    /\ calcs = <<>>
    /\ adjustments = <<>>
    /\ nextId = 1
    /\ nreq = 0
    /\ proc = [p \in Procs |-> Idle]
    /\ last = NoOutcome

Exists(id) == \E x \in periods : x.id = id
Period(id) == CHOOSE x \in periods : x.id = id
CalcsOf(id) == {i \in 1..Len(calcs) : calcs[i].payPeriodId = id}

\* A request arrives at an idle process.
CanStart(p) == proc[p].pc = "idle" /\ nreq < MaxRequests

\* The handler returns or throws: the process is idle again.
Finish(p, op, id, req, result, ret) ==
    /\ proc' = [proc EXCEPT ![p] = Idle]
    /\ last' = [op |-> op, id |-> id, result |-> result, ret |-> ret]

Goto(p, rec) == proc' = [proc EXCEPT ![p] = rec] /\ UNCHANGED last

\* Faulty variant: only the two "an end lies within the row" tests.
OverlapsRowEnds(x, startDateTime, endDateTime) ==
    \/ (x.startDate <= startDateTime /\ x.endDate >= startDateTime)
    \/ (x.startDate <= endDateTime /\ x.endDate >= endDateTime)

\* The three-way test of create and update's findFirst, on one row
OverlapsRow(x, startDateTime, endDateTime) ==
    \/ (x.startDate <= startDateTime /\ x.endDate >= startDateTime)
    \/ (x.startDate <= endDateTime /\ x.endDate >= endDateTime)
    \/ (x.startDate >= startDateTime /\ x.endDate <= endDateTime)

\* ------------------------------------------------ PayrollService.create
\* Faulty variant: a range of a single instant is let through.
EmptyRangeOnly(startDateTime, endDateTime) == startDateTime > endDateTime

\* `if (startDateTime >= endDateTime)`
BadRange(startDateTime, endDateTime) == startDateTime >= endDateTime

\* new Date(...) of both dates, the date check, and the overlap query
Create(p, dto) ==
    /\ CanStart(p)
    /\ nextId + Cardinality({q \in Procs : proc[q].pc = "create_write"}) <= MaxPeriods
    /\ nreq' = nreq + 1
    /\ IF BadRange(dto.startDate, dto.endDate)
       THEN Finish(p, "create", 0, nreq + 1, "ValidationError", 0)
       ELSE IF \E x \in periods : OverlapsRow(x, dto.startDate, dto.endDate)
       THEN Finish(p, "create", 0, nreq + 1, "ValidationError", 0)
       ELSE Goto(p, [pc |-> "create_write", req |-> nreq + 1, dto |-> dto])
    /\ UNCHANGED db

\* prisma.payPeriod.create
CreateWrite(p) ==
    /\ proc[p].pc = "create_write"
    /\ LET dto == proc[p].dto IN
       /\ periods' = periods \cup
            {[id |-> nextId, startDate |-> dto.startDate, endDate |-> dto.endDate,
              type |-> dto.type,
              status |-> IF IsSome(dto.status) THEN Val(dto.status) ELSE "DRAFT"]}
       /\ nextId' = nextId + 1
       /\ Finish(p, "create", nextId, proc[p].req, "ok", 0)
    /\ UNCHANGED <<calcs, adjustments, nreq>>

\* ------------------------------------------------ PayrollService.update
\* Faulty variant: only a PAID period is locked.
HasLockedCalculationsPaid(payPeriod, calculations) ==
    calculations # {} /\ payPeriod.status = "PAID"

\* `payPeriod.calculations.length > 0 && payPeriod.status !== DRAFT`
HasLockedCalculations(payPeriod, calculations) ==
    calculations # {} /\ payPeriod.status # "DRAFT"

\* findUnique, the lock check and the date check
Update(p, id, dto) ==
    /\ CanStart(p)
    /\ nreq' = nreq + 1
    /\ IF ~Exists(id)
       THEN Finish(p, "update", id, nreq + 1, "NotFoundError", 0)
       ELSE LET payPeriod == Period(id)
                datesGiven == IsSome(dto.startDate) \/ IsSome(dto.endDate)
                startDateTime == IF IsSome(dto.startDate) THEN Val(dto.startDate)
                                 ELSE payPeriod.startDate
                endDateTime == IF IsSome(dto.endDate) THEN Val(dto.endDate)
                               ELSE payPeriod.endDate
            IN  IF /\ HasLockedCalculations(payPeriod, CalcsOf(id))
                   /\ (datesGiven \/ IsSome(dto.type))
                THEN Finish(p, "update", id, nreq + 1, "ValidationError", 0)
                ELSE IF datesGiven /\ startDateTime >= endDateTime
                THEN Finish(p, "update", id, nreq + 1, "ValidationError", 0)
                ELSE Goto(p, [pc |-> IF datesGiven THEN "update_overlap"
                                     ELSE "update_write",
                              req |-> nreq + 1, id |-> id, dto |-> dto,
                              startDateTime |-> startDateTime,
                              endDateTime |-> endDateTime])
    /\ UNCHANGED db

\* the overlap query, excluding the period itself
UpdateOverlap(p) ==
    /\ proc[p].pc = "update_overlap"
    /\ IF \E x \in periods :
            /\ x.id # proc[p].id
            /\ OverlapsRow(x, proc[p].startDateTime, proc[p].endDateTime)
       THEN Finish(p, "update", proc[p].id, proc[p].req, "ValidationError", 0)
       ELSE Goto(p, [proc[p] EXCEPT !.pc = "update_write"])
    /\ UNCHANGED <<db, nreq>>

\* updateData = {...updatePayPeriodDto}, dates converted
UpdateData(x, dto) ==
    [id |-> x.id,
     startDate |-> IF IsSome(dto.startDate) THEN Val(dto.startDate) ELSE x.startDate,
     endDate |-> IF IsSome(dto.endDate) THEN Val(dto.endDate) ELSE x.endDate,
     type |-> IF IsSome(dto.type) THEN Val(dto.type) ELSE x.type,
     status |-> IF IsSome(dto.status) THEN Val(dto.status) ELSE x.status]

\* prisma.payPeriod.update; it throws when the row is gone
UpdateWrite(p) ==
    /\ proc[p].pc = "update_write"
    /\ IF ~Exists(proc[p].id)
       THEN /\ Finish(p, "update", proc[p].id, proc[p].req, "Error", 0)
            /\ UNCHANGED periods
       ELSE /\ periods' = (periods \ {Period(proc[p].id)})
                          \cup {UpdateData(Period(proc[p].id), proc[p].dto)}
            /\ Finish(p, "update", proc[p].id, proc[p].req, "ok", 0)
    /\ UNCHANGED <<calcs, adjustments, nextId, nreq>>

\* ------------------------------------------------ PayrollService.delete
\* findUnique with the calculations
Delete(p, id) ==
    /\ CanStart(p)
    /\ nreq' = nreq + 1
    /\ IF ~Exists(id)
       THEN Finish(p, "delete", id, nreq + 1, "NotFoundError", 0)
       ELSE IF CalcsOf(id) # {}
       THEN Finish(p, "delete", id, nreq + 1, "ValidationError", 0)
       ELSE Goto(p, [pc |-> "delete_write", req |-> nreq + 1, id |-> id])
    /\ UNCHANGED db

\* Faulty variant: the foreign key does not hold the delete back.
RestrictsDeleteNever(id) == FALSE

\* PayCalculation_payPeriodId_fkey ... ON DELETE RESTRICT
RestrictsDelete(id) == CalcsOf(id) # {}

\* prisma.payPeriod.delete; it throws when the row is gone or when a
\* PayCalculation references it (ON DELETE RESTRICT)
DeleteWrite(p) ==
    /\ proc[p].pc = "delete_write"
    /\ IF ~Exists(proc[p].id) \/ RestrictsDelete(proc[p].id)
       THEN /\ Finish(p, "delete", proc[p].id, proc[p].req, "Error", 0)
            /\ UNCHANGED periods
       ELSE /\ periods' = periods \ {Period(proc[p].id)}
            /\ Finish(p, "delete", proc[p].id, proc[p].req, "ok", 0)
    /\ UNCHANGED <<calcs, adjustments, nextId, nreq>>

\* -------------------------------------- PayrollService.calculatePayroll
\* Faulty variant: `gte` in place of `gt`.
IsActiveInclusive(u, endDate) ==
    \/ ~IsSome(users[u].terminationDate)
    \/ Val(users[u].terminationDate) >= endDate

\* user.findMany: terminationDate null or later than the period's end
IsActive(u, endDate) ==
    \/ ~IsSome(users[u].terminationDate)
    \/ Val(users[u].terminationDate) > endDate

ActiveEmployees(endDate) ==
    SubSeqAt(UserIds, {i \in 1..Len(UserIds) : IsActive(UserIds[i], endDate)}, 1)

\* Faulty variant: an employee who already has a stored calculation is
\* skipped as well.
NoPayRateOrStored(u) ==
    \/ ~IsSome(users[u].payRate) \/ Val(users[u].payRate) = 0
    \/ \E i \in 1..Len(calcs) : calcs[i].userId = u

\* `if (!employee.payRate) continue`: null and 0 are both falsy
NoPayRate(u) == ~IsSome(users[u].payRate) \/ Val(users[u].payRate) = 0

\* timeClock.findMany: the employee's records clocked in within
\* [startDate, endDate] that have a clockOutTime
FindTimeClocks(u, startDate, endDate) ==
    SubSeqAt(timeClocks,
             {i \in 1..Len(timeClocks) :
                 /\ timeClocks[i].userId = u
                 /\ timeClocks[i].clockInTime >= startDate
                 /\ timeClocks[i].clockInTime <= endDate
                 /\ IsSome(timeClocks[i].clockOutTime)}, 1)

\* findUnique of the period, then the active employees
CalculatePayroll(p, id) ==
    /\ CanStart(p)
    /\ nreq' = nreq + 1
    /\ IF ~Exists(id)
       THEN Finish(p, "calculatePayroll", id, nreq + 1, "NotFoundError", 0)
       ELSE Goto(p, [pc |-> "calc_processing", req |-> nreq + 1, id |-> id,
                     payPeriod |-> Period(id),
                     employees |-> ActiveEmployees(Period(id).endDate),
                     idx |-> 1, count |-> 0])
    /\ UNCHANGED db

SetStatus(id, status) ==
    periods' = (periods \ {Period(id)}) \cup {[Period(id) EXCEPT !.status = status]}

\* Faulty variant: the run starts without marking the period as being processed.
RunningStatusUnset == "DRAFT"

\* `data: { status: PayPeriodStatus.PROCESSING }`
RunningStatus == "PROCESSING"

\* payPeriod.update to PROCESSING, before the try block
CalcSetProcessing(p) ==
    /\ proc[p].pc = "calc_processing"
    /\ IF ~Exists(proc[p].id)
       THEN /\ Finish(p, "calculatePayroll", proc[p].id, proc[p].req, "Error", 0)
            /\ UNCHANGED periods
       ELSE /\ SetStatus(proc[p].id, RunningStatus)
            /\ Goto(p, [proc[p] EXCEPT !.pc = "calc_loop"])
    /\ UNCHANGED <<calcs, adjustments, nextId, nreq>>

\* Faulty variant: the counter is not advanced after a row is stored.
CountAfterStoreSame(count) == count

\* `count++`
CountAfterStore(count) == count + 1

\* The row of payCalculation.create for one employee: the result of
\* calculateEmployeePay on the records tcs, written by request req
PayCalculationRow(id, payPeriod, employee, tcs, req) ==
    LET payCalculation ==
            calculateEmployeePay(employee, tcs,
                Val(users[employee].payRate),
                users[employee].overtimeEnabled,
                payPeriod.startDate, payPeriod.endDate)
    IN  [payPeriodId |-> id,
         userId |-> employee,
         regularHours |-> payCalculation.regularHours,
         overtimeHours |-> payCalculation.overtimeHours,
         holidayHours |-> payCalculation.holidayHours,
         grossPay |-> payCalculation.grossPay,
         run |-> req]

\* The steps of one loop iteration that can throw
FailPoints == {"none", "fetch", "calculate", "write"}

\* One iteration of `for (const employee of employees)`.  fail names the
\* step of this iteration that throws, if any.
CalcEmployee(p, fail) ==
    /\ proc[p].pc = "calc_loop"
    /\ proc[p].idx <= Len(proc[p].employees)
    /\ LET employee == proc[p].employees[proc[p].idx]
           payPeriod == proc[p].payPeriod
           tcs == FindTimeClocks(employee, payPeriod.startDate, payPeriod.endDate)
           next == [proc[p] EXCEPT !.idx = @ + 1]
           caught == [proc[p] EXCEPT !.pc = "calc_catch"]
       IN  IF NoPayRate(employee)
           THEN /\ fail = "none"
                /\ Goto(p, next)
                /\ UNCHANGED calcs
           ELSE IF fail = "fetch"
           THEN Goto(p, caught) /\ UNCHANGED calcs
           ELSE IF tcs = <<>>
           THEN /\ fail = "none"
                /\ Goto(p, next)
                /\ UNCHANGED calcs
           ELSE IF fail # "none" \/ ~Exists(proc[p].id)
           THEN Goto(p, caught) /\ UNCHANGED calcs
           ELSE /\ calcs' = Append(calcs,
                       PayCalculationRow(proc[p].id, payPeriod, employee, tcs,
                                         proc[p].req))
                /\ Goto(p, [next EXCEPT !.count = CountAfterStore(@)])
    /\ UNCHANGED <<periods, adjustments, nextId, nreq>>

\* Faulty variant: the run returns without marking the period as done.
CompletedStatusUnset == "PROCESSING"

\* `data: { status: PayPeriodStatus.COMPLETED }`
CompletedStatus == "COMPLETED"

\* payPeriod.update to COMPLETED and `return count`; inside the try block
CalcComplete(p) ==
    /\ proc[p].pc = "calc_loop"
    /\ proc[p].idx > Len(proc[p].employees)
    /\ IF ~Exists(proc[p].id)
       THEN /\ Goto(p, [proc[p] EXCEPT !.pc = "calc_catch"])
            /\ UNCHANGED periods
       ELSE /\ SetStatus(proc[p].id, CompletedStatus)
            /\ Finish(p, "calculatePayroll", proc[p].id, proc[p].req, "ok",
                      proc[p].count)
    /\ UNCHANGED <<calcs, adjustments, nextId, nreq>>

\* Faulty variant: the catch block leaves the period as it was during the run.
ResetStatusStuck == "PROCESSING"

\* `data: { status: PayPeriodStatus.DRAFT }` of the catch block
ResetStatus == "DRAFT"

\* the catch block: payPeriod.update to DRAFT, then rethrow
CalcCatch(p) ==
    /\ proc[p].pc = "calc_catch"
    /\ IF ~Exists(proc[p].id)
       THEN UNCHANGED periods
       ELSE SetStatus(proc[p].id, ResetStatus)
    /\ Finish(p, "calculatePayroll", proc[p].id, proc[p].req, "Error", proc[p].count)
    /\ UNCHANGED <<calcs, adjustments, nextId, nreq>>

\* ----------------------------------------- PayrollService.addAdjustment
\* Faulty variant: no status locks a calculation.
IsPaidNever(status) == FALSE

\* `payCalculation.payPeriod.status === PayPeriodStatus.PAID`
IsPaid(status) == status = "PAID"

\* payCalculation.findUnique with its payPeriod, and the PAID check
AddAdjustment(p, payCalculationId, amount) ==
    /\ CanStart(p)
    /\ nreq' = nreq + 1
    /\ IF payCalculationId \notin 1..Len(calcs)
       THEN Finish(p, "addAdjustment", payCalculationId, nreq + 1, "NotFoundError", 0)
       ELSE IF IsPaid(Period(calcs[payCalculationId].payPeriodId).status)
       THEN Finish(p, "addAdjustment", payCalculationId, nreq + 1, "ValidationError", 0)
       ELSE Goto(p, [pc |-> "adj_create", req |-> nreq + 1,
                     id |-> payCalculationId, amount |-> amount])
    /\ UNCHANGED db

\* prisma.payAdjustment.create; fail: the write throws
AdjCreate(p, fail) ==
    /\ proc[p].pc = "adj_create"
    /\ IF fail
       THEN /\ Finish(p, "addAdjustment", proc[p].id, proc[p].req, "Error", 0)
            /\ UNCHANGED adjustments
       ELSE /\ adjustments' = Append(adjustments,
                   [payCalculationId |-> proc[p].id,
                    amount |-> proc[p].amount * HourUnit])
            /\ Goto(p, [proc[p] EXCEPT !.pc = "adj_increment"])
    /\ UNCHANGED <<periods, calcs, nextId, nreq>>

\* prisma.payCalculation.update, grossPay: {increment: amount}; fail: the
\* write throws
AdjIncrement(p, fail) ==
    /\ proc[p].pc = "adj_increment"
    /\ IF fail
       THEN /\ Finish(p, "addAdjustment", proc[p].id, proc[p].req, "Error", 0)
            /\ UNCHANGED calcs
       ELSE /\ calcs' = [calcs EXCEPT ![proc[p].id].grossPay =
                                          @ + proc[p].amount * HourUnit]
            /\ Finish(p, "addAdjustment", proc[p].id, proc[p].req, "ok", 0)
    /\ UNCHANGED <<periods, adjustments, nextId, nreq>>

\* -------------------------------------------- PayrollService.markAsPaid
\* Faulty variant: the check also lets a PROCESSING period through.
NotCompletedLoose(status) == status \notin {"COMPLETED", "PROCESSING"}

\* `payPeriod.status !== PayPeriodStatus.COMPLETED`
NotCompleted(status) == status # "COMPLETED"

\* findUnique and the COMPLETED check
MarkAsPaid(p, id) ==
    /\ CanStart(p)
    /\ nreq' = nreq + 1
    /\ IF ~Exists(id)
       THEN Finish(p, "markAsPaid", id, nreq + 1, "NotFoundError", 0)
       ELSE IF NotCompleted(Period(id).status)
       THEN Finish(p, "markAsPaid", id, nreq + 1, "ValidationError", 0)
       ELSE Goto(p, [pc |-> "mark_write", req |-> nreq + 1, id |-> id])
    /\ UNCHANGED db

\* payPeriod.update to PAID; it throws when the row is gone
MarkWrite(p) ==
    /\ proc[p].pc = "mark_write"
    /\ IF ~Exists(proc[p].id)
       THEN /\ Finish(p, "markAsPaid", proc[p].id, proc[p].req, "Error", 0)
            /\ UNCHANGED periods
       ELSE /\ SetStatus(proc[p].id, "PAID")
            /\ Finish(p, "markAsPaid", proc[p].id, proc[p].req, "ok", 0)
    /\ UNCHANGED <<calcs, adjustments, nextId, nreq>>

\* ------------------------------------------------------ specifications
\* The requests the model sends.
PeriodIds == 1..MaxPeriods
CalcIds == 1..MaxCalcId
Amounts == {0 - 50, 50}
OptStatus == {None} \cup {Some(s) : s \in PayPeriodStatus}
OptType == {None} \cup {Some(t) : t \in PayPeriodType}
OptDate == {None} \cup {Some(d) : d \in Dates}

CreateDtos ==
    [startDate : Dates, endDate : Dates, type : {"BI_WEEKLY"}, status : OptStatus]
\* An update request changes the dates, the type or the status.
UpdateDtos ==
    {d \in [startDate : OptDate, endDate : OptDate,
            type : {None, Some("MONTHLY")}, status : OptStatus] :
        Cardinality({k \in {"dates", "type", "status"} :
            \/ (k = "dates" /\ (IsSome(d.startDate) \/ IsSome(d.endDate)))
            \/ (k = "type" /\ IsSome(d.type))
            \/ (k = "status" /\ IsSome(d.status))}) <= 1}

\* The same requests without a status field.
PlainCreateDtos == {d \in CreateDtos : d.status = None}
PlainUpdateDtos == {d \in UpdateDtos : d.status = None}

\* One step of process p, its create and update requests drawn from the
\* given sets.
Step(p, createDtos, updateDtos) ==
    \/ \E dto \in createDtos : Create(p, dto)
    \/ CreateWrite(p)
    \/ \E id \in PeriodIds, dto \in updateDtos : Update(p, id, dto)
    \/ UpdateOverlap(p)
    \/ UpdateWrite(p)
    \/ \E id \in PeriodIds : Delete(p, id)
    \/ DeleteWrite(p)
    \/ \E id \in PeriodIds : CalculatePayroll(p, id)
    \/ CalcSetProcessing(p)
    \/ \E fail \in FailPoints : CalcEmployee(p, fail)
    \/ CalcComplete(p)
    \/ CalcCatch(p)
    \/ \E c \in CalcIds, amount \in Amounts : AddAdjustment(p, c, amount)
    \/ \E fail \in BOOLEAN : AdjCreate(p, fail)
    \/ \E fail \in BOOLEAN : AdjIncrement(p, fail)
    \/ \E id \in PeriodIds : MarkAsPaid(p, id)
    \/ MarkWrite(p)

\* Requests of any number of clients, interleaved at every await.
Next == \E p \in Procs : Step(p, CreateDtos, UpdateDtos)
Spec == Init /\ [][Next]_vars

\* One request at a time: a request starts only when none is in progress.
SeqNext == Step(1, CreateDtos, UpdateDtos)
SeqSpec == Init /\ [][SeqNext]_vars

\* One request at a time, and no request names a status.
PlainNext == Step(1, PlainCreateDtos, PlainUpdateDtos)
PlainSpec == Init /\ [][PlainNext]_vars


\* Creations, deletions and payroll runs of any number of clients,
\* interleaved at every await; the periods created start on date 0.
DelCreateDtos == {d \in PlainCreateDtos : d.startDate = 0}

DelStep(p) ==
    \/ \E dto \in DelCreateDtos : Create(p, dto)
    \/ CreateWrite(p)
    \/ \E id \in PeriodIds : Delete(p, id)
    \/ DeleteWrite(p)
    \/ \E id \in PeriodIds : CalculatePayroll(p, id)
    \/ CalcSetProcessing(p)
    \/ \E fail \in FailPoints : CalcEmployee(p, fail)
    \/ CalcComplete(p)
    \/ CalcCatch(p)
DelNext == \E p \in Procs : DelStep(p)
DelSpec == Init /\ [][DelNext]_vars

\* The continuations of a payroll run: each is the code after an await,
\* which runs once the awaited query has answered.
RunStep(p) ==
    \/ CalcSetProcessing(p)
    \/ \E fail \in FailPoints : CalcEmployee(p, fail)
    \/ CalcComplete(p)
    \/ CalcCatch(p)

\* Creations, deletions and payroll runs, one request at a time, with
\* every awaited query of a run answering in the end.
LiveNext == DelStep(1)
LiveSpec == Init /\ [][LiveNext]_vars /\ WF_vars(RunStep(1))

\* ------------------------------------------- calculateEmployeePay alone
\* What an employee may have clocked on one day: nothing, 8 hours, 9 hours,
\* 13 hours in two records, 8 hours on an OVERTIME schedule, 8 hours on an
\* OVERTIME schedule flagged as a statutory holiday, one record of 48
\* hours (totalMinutes is whatever the clock-out computed, no cap).
DayPatterns ==
    << <<>>,
       << [totalMinutes |-> 480, schedule |-> Schedule("REGULAR", FALSE)] >>,
       << [totalMinutes |-> 540, schedule |-> Schedule("REGULAR", FALSE)] >>,
       << [totalMinutes |-> 480, schedule |-> NoSchedule],
          [totalMinutes |-> 300, schedule |-> Schedule("REGULAR", FALSE)] >>,
       << [totalMinutes |-> 480, schedule |-> Schedule("OVERTIME", FALSE)] >>,
       << [totalMinutes |-> 480, schedule |-> Schedule("OVERTIME", TRUE)] >>,
       << [totalMinutes |-> 2880, schedule |-> NoSchedule] >> >>

PayDays == 0..MaxPayDay
PayUsers == {"u1", "u5"}

\* The weeks of records tried: any pattern on day 0 (a Sunday, and the
\* statutory holiday), and on the days after it every choice of patterns,
\* each choice taken once, the later patterns of DayPatterns first.
PayWeeks ==
    {f \in [PayDays -> 1..Len(DayPatterns)] :
        \A d \in 1..(MaxPayDay - 1) : f[d] >= f[d + 1]}

\* The completed TimeClock rows of userId for the days from d on, day x
\* following pattern f[x].
RECURSIVE TimeClocksOf(_, _, _)
TimeClocksOf(userId, f, d) ==
    IF d > MaxPayDay THEN <<>>
    ELSE [i \in 1..Len(DayPatterns[f[d]]) |->
            [userId |-> userId,
             clockInTime |-> DateOfDay(d),
             clockOutTime |-> Some(DateOfDay(d) + 1),
             totalMinutes |-> Some(DayPatterns[f[d]][i].totalMinutes),
             schedule |-> DayPatterns[f[d]][i].schedule]]
         \o TimeClocksOf(userId, f, d + 1)

\* One call of calculateEmployeePay is pending, for some employee, some
\* setting of overtimeEnabled and some week of records; the period is the
\* days 0..MaxPayDay.  (The records passed are on days from 0 on, so they
\* add nothing to the eligibility window of a holiday on day 0, and u5 is
\* eligible on every later day without them.)
PayInit ==
    /\ periods = {}
    /\ calcs = <<>>
    /\ adjustments = <<>>
    /\ nextId = 1
    /\ nreq = 0
    /\ proc \in {[p \in Procs |->
                    IF p = 1
                    THEN [pc |-> "pay", userId |-> u, overtimeEnabled |-> b,
                          timeClocks |-> TimeClocksOf(u, f, 0),
                          startDate |-> 0, endDate |-> DateOfDay(MaxPayDay + 1)]
                    ELSE Idle] :
                 u \in PayUsers, b \in BOOLEAN,
                 f \in PayWeeks}
    /\ last = NoOutcome

\* The call runs to its return.
CalculateEmployeePayCall(p) ==
    /\ proc[p].pc = "pay"
    /\ proc' = [proc EXCEPT ![p].pc = "paid"]
    /\ last' = [op |-> "calculateEmployeePay", id |-> 0, result |-> "ok",
                ret |-> calculateEmployeePay(proc[p].userId, proc[p].timeClocks,
                            Val(users[proc[p].userId].payRate),
                            proc[p].overtimeEnabled,
                            proc[p].startDate, proc[p].endDate)]
    /\ UNCHANGED <<db, nreq>>

PayNext == CalculateEmployeePayCall(1)
PaySpec == PayInit /\ [][PayNext]_vars

\* ---------------------------- calculateEmployeePay, records reordered
\* The specification PermSpec is one call of calculateEmployeePay on the
\* records of MaxWeeks weeks, handed over in some other order than the
\* chronological one.
MaxWeeks == 2

\* The minutes worked on the seven days of a week, Sunday first: nothing;
\* five days of 9 hours; six days of 8 hours; six days of 8 hours from
\* Sunday on; three days of 13 hours and one of 5; five days of 8 hours and
\* one of 4; two days of 8 hours.
WeekShapes ==
    << <<0, 0, 0, 0, 0, 0, 0>>,
       <<0, 540, 540, 540, 540, 540, 0>>,
       <<0, 480, 480, 480, 480, 480, 480>>,
       <<480, 480, 480, 480, 480, 480, 0>>,
       <<0, 780, 780, 780, 300, 0, 0>>,
       <<0, 480, 480, 480, 480, 480, 240>>,
       <<0, 480, 480, 0, 0, 0, 0>> >>

\* The records of userId in chronological order, from day d on, the week
\* w following shape f[w].
RECURSIVE WeeksOf(_, _, _)
WeeksOf(userId, f, d) ==
    IF d >= MaxWeeks * DaysPerWeek THEN <<>>
    ELSE LET minutes == WeekShapes[f[d \div DaysPerWeek]][(d % DaysPerWeek) + 1]
         IN  (IF minutes = 0 THEN <<>>
              ELSE << [userId |-> userId,
                       clockInTime |-> DateOfDay(d),
                       clockOutTime |-> Some(DateOfDay(d) + 1),
                       totalMinutes |-> Some(minutes),
                       schedule |-> NoSchedule] >>)
             \o WeeksOf(userId, f, d + 1)

Rotate(s, k) == SubSeq(s, k + 1, Len(s)) \o SubSeq(s, 1, k)
Reverse(s) == [i \in 1..Len(s) |-> s[Len(s) + 1 - i]]
\* The records at the odd positions, then those at the even ones.
Alternate(s) ==
    SubSeqAt(s, {i \in 1..Len(s) : i % 2 = 1}, 1)
    \o SubSeqAt(s, {i \in 1..Len(s) : i % 2 = 0}, 1)

\* The orders tried: the chronological list rotated by k, and that
\* reversed, and that with odd and even positions separated.
Reorderings(s) ==
    {Rotate(s, k) : k \in 0..(Len(s) - 1)}
    \cup {Reverse(Rotate(s, k)) : k \in 0..(Len(s) - 1)}
    \cup {Alternate(Rotate(s, k)) : k \in 0..(Len(s) - 1)}

PermInit ==
    /\ periods = {}
    /\ calcs = <<>>
    /\ adjustments = <<>>
    /\ nextId = 1
    /\ nreq = 0
    /\ \E u \in PayUsers, b \in BOOLEAN,
          f \in [0..(MaxWeeks - 1) -> 1..Len(WeekShapes)] :
          \E tcs \in Reorderings(WeeksOf(u, f, 0)) :
            proc = [p \in Procs |->
                      IF p = 1
                      THEN [pc |-> "pay", userId |-> u, overtimeEnabled |-> b,
                            timeClocks |-> tcs,
                            chronological |-> WeeksOf(u, f, 0),
                            startDate |-> 0,
                            endDate |-> DateOfDay(MaxWeeks * DaysPerWeek)]
                      ELSE Idle]
    /\ last = NoOutcome

PermSpec == PermInit /\ [][PayNext]_vars

\* ------------------------------------- isEligibleForHolidayPay, alone
\* The specification EligSpec is one call of isEligibleForHolidayPay for
\* employee "e" and the holiday at midnight of day 0, over a user row and
\* a clock history drawn from the cases below.
EligHolidayDate == DateOfDay(0)

\* Hire dates: 31, 30 and 29 days before the holiday.
EligHireDays == {EligibilityWindowDays + 1, EligibilityWindowDays,
                 EligibilityWindowDays - 1}

\* The numbers of consecutive days worked, ending the day before the
\* holiday.
EligDayCounts == (EligibilityMinDays - 2)..(EligibilityMinDays + 1)

EligClock(userId, t, completed) ==
    [userId |-> userId, clockInTime |-> t,
     clockOutTime |-> IF completed THEN Some(t + 1) ELSE None,
     totalMinutes |-> IF completed THEN Some(480) ELSE None,
     schedule |-> NoSchedule]

\* A history: n days worked before the holiday, and according to the
\* flags a second clock-in on the day before the holiday, clock-ins on the
\* holiday itself, a clock-in at the first instant of the window, one at
\* the last instant before the window, one never clocked out, and the
\* clock-ins of another employee.
EligHistory(n, dup, onHoliday, first, before, open, other) ==
    [i \in 1..n |-> EligClock("e", EligHolidayDate - i * TicksPerDay, TRUE)]
    \o (IF dup THEN <<EligClock("e", EligHolidayDate - 1, TRUE)>> ELSE <<>>)
    \o (IF onHoliday THEN <<EligClock("e", EligHolidayDate, TRUE),
                            EligClock("e", EligHolidayDate + 1, TRUE)>>
        ELSE <<>>)
    \o (IF first
        THEN <<EligClock("e", thirtyDaysBefore(EligHolidayDate), TRUE)>>
        ELSE <<>>)
    \o (IF before
        THEN <<EligClock("e", thirtyDaysBefore(EligHolidayDate) - 1, TRUE)>>
        ELSE <<>>)
    \o (IF open
        THEN <<EligClock("e", EligHolidayDate
                                - (EligibilityMinDays + 5) * TicksPerDay, FALSE)>>
        ELSE <<>>)
    \o (IF other
        THEN [i \in 1..EligibilityMinDays |->
                EligClock("x", EligHolidayDate - (n + i) * TicksPerDay, TRUE)]
        ELSE <<>>)

EligInit ==
    /\ periods = {}
    /\ calcs = <<>>
    /\ adjustments = <<>>
    /\ nextId = 1
    /\ nreq = 0
    /\ proc \in {[p \in Procs |->
                    IF p = 1
                    THEN [pc |-> "eligible", userId |-> "e",
                          holidayDate |-> EligHolidayDate,
                          user |-> IF exists
                                   THEN Some([hireDate |-> EligHolidayDate
                                                            - h * TicksPerDay])
                                   ELSE None,
                          timeClocks |-> EligHistory(n, f[1], f[2], f[3],
                                                     f[4], f[5], f[6])]
                    ELSE Idle] :
                 exists \in BOOLEAN, h \in EligHireDays,
                 n \in EligDayCounts, f \in [1..6 -> BOOLEAN]}
    /\ last = NoOutcome

\* The call runs to its return; it only reads.
IsEligibleForHolidayPayCall(p) ==
    /\ proc[p].pc = "eligible"
    /\ proc' = [proc EXCEPT ![p].pc = "answered"]
    /\ last' = [op |-> "isEligibleForHolidayPay", id |-> 0, result |-> "ok",
                ret |-> HolidayPayEligibility(proc[p].user, proc[p].timeClocks,
                            proc[p].userId, proc[p].holidayDate)]
    /\ UNCHANGED <<db, nreq>>

EligNext == IsEligibleForHolidayPayCall(1)
EligSpec == EligInit /\ [][EligNext]_vars

\* ------------------------------------------------- after a payroll run
\* The rows a run that meets no failure writes for the employees from the
\* i-th on.
RECURSIVE RunRows(_, _, _)
RunRows(payPeriod, employees, i) ==
    IF i > Len(employees) THEN <<>>
    ELSE LET employee == employees[i]
             tcs == FindTimeClocks(employee, payPeriod.startDate, payPeriod.endDate)
         IN  (IF NoPayRate(employee) \/ tcs = <<>> THEN <<>>
              ELSE <<PayCalculationRow(payPeriod.id, payPeriod, employee, tcs, 0)>>)
             \o RunRows(payPeriod, employees, i + 1)

\* The tables once the first pay period has been created and calculated
\* and, for PAID, marked as paid; for DRAFT and PROCESSING, set so by update.
CalculatedPeriods ==
    {[id |-> 1, startDate |-> d[1], endDate |-> d[2], type |-> "BI_WEEKLY",
      status |-> s] : d \in {<<0, 2>>, <<2, 3>>}, s \in PayPeriodStatus}

AdjInit ==
    /\ periods \in {{x} : x \in CalculatedPeriods}
    /\ calcs = LET x == CHOOSE y \in periods : TRUE
               IN  RunRows(x, ActiveEmployees(x.endDate), 1)
    /\ adjustments = <<>>
    /\ nextId = 2
    /\ nreq = 0
    /\ proc = [p \in Procs |-> Idle]
    /\ last = NoOutcome

\* Adjustments and payments on a calculated period, one request at a time.
AdjNext ==
    \/ \E c \in CalcIds, amount \in Amounts : AddAdjustment(1, c, amount)
    \/ \E fail \in BOOLEAN : AdjCreate(1, fail)
    \/ \E fail \in BOOLEAN : AdjIncrement(1, fail)
    \/ \E id \in PeriodIds : MarkAsPaid(1, id)
    \/ MarkWrite(1)
AdjSpec == AdjInit /\ [][AdjNext]_vars

\* Adjustments, payments, payroll runs and updates on a calculated period,
\* of any number of clients, interleaved at every await.
LockStep(p) ==
    \/ \E id \in PeriodIds, dto \in PlainUpdateDtos : Update(p, id, dto)
    \/ UpdateOverlap(p)
    \/ UpdateWrite(p)
    \/ \E id \in PeriodIds : CalculatePayroll(p, id)
    \/ CalcSetProcessing(p)
    \/ \E fail \in FailPoints : CalcEmployee(p, fail)
    \/ CalcComplete(p)
    \/ CalcCatch(p)
    \/ \E c \in CalcIds, amount \in Amounts : AddAdjustment(p, c, amount)
    \/ \E fail \in BOOLEAN : AdjCreate(p, fail)
    \/ \E fail \in BOOLEAN : AdjIncrement(p, fail)
    \/ \E id \in PeriodIds : MarkAsPaid(p, id)
    \/ MarkWrite(p)
LockNext == \E p \in Procs : LockStep(p)
LockSpec == AdjInit /\ [][LockNext]_vars

\* ------------------------------------------------------------- claims
AllIdle == \A p \in Procs : proc[p].pc = "idle"

\* A request returns or throws in this step (last' is its outcome): a
\* process goes back to idle, or a request that has just arrived fails its
\* first checks.
Returned ==
    \/ \E p \in Procs : proc[p].pc # "idle" /\ proc'[p].pc = "idle"
    \/ (nreq' # nreq /\ proc' = proc)

StatusOf(id) == Period(id).status

\* Two closed ranges intersect (a shared boundary instant counts).
Intersect(x, y) == x.startDate <= y.endDate /\ y.startDate <= x.endDate

\* C1: in every reachable state, under any interleaving of create, update
\* and delete, no two stored pay periods have intersecting
\* [startDate, endDate] ranges.
C1_NoOverlap ==
    \A x \in periods : \A y \in periods : x.id # y.id => ~Intersect(x, y)

\* C2: every change of a pay period's status follows one of the edges
\* DRAFT->PROCESSING, PROCESSING->COMPLETED, COMPLETED->PAID,
\* PROCESSING->DRAFT.
StatusEdges ==
    {<<"DRAFT", "PROCESSING">>, <<"PROCESSING", "COMPLETED">>,
     <<"COMPLETED", "PAID">>, <<"PROCESSING", "DRAFT">>}

C2_StatusEdges ==
    [][\A x \in periods : \A y \in periods' :
          (x.id = y.id /\ x.status # y.status)
              => <<x.status, y.status>> \in StatusEdges]_vars

\* C3: the status of an existing pay period changes only in a step of
\* markAsPaid (COMPLETED -> PAID) or of a calculatePayroll run; in
\* particular no step of update changes it.
C3_OnlyMarkAndCalc ==
    [][\A x \in periods : \A y \in periods' :
          (x.id = y.id /\ x.status # y.status)
              => \E p \in Procs :
                    /\ proc'[p] # proc[p]
                    /\ \/ (proc[p].pc = "mark_write"
                           /\ x.status = "COMPLETED" /\ y.status = "PAID")
                       \/ proc[p].pc \in {"calc_processing", "calc_loop",
                                          "calc_catch"}]_vars

\* C4: with one request at a time, markAsPaid(id) succeeds, setting the
\* status to PAID and changing nothing else, exactly when the period
\* exists with status COMPLETED; it fails with ValidationError on any
\* other status and with NotFoundError on a missing period, and a failed
\* call changes no pay period, calculation or adjustment.
C4_MarkAsPaid ==
    [][(Returned /\ last'.op = "markAsPaid") =>
             LET id == last'.id IN
             /\ (last'.result = "ok") <=> (Exists(id) /\ StatusOf(id) = "COMPLETED")
             /\ (last'.result = "ok") =>
                   /\ periods' = (periods \ {Period(id)})
                                 \cup {[Period(id) EXCEPT !.status = "PAID"]}
                   /\ UNCHANGED <<calcs, adjustments>>
             /\ (Exists(id) /\ StatusOf(id) \in {"DRAFT", "PROCESSING", "PAID"})
                   => (last'.result = "ValidationError" /\ UNCHANGED db)
             /\ ~Exists(id) => (last'.result = "NotFoundError" /\ UNCHANGED db)]_vars

\* C4 witness: a markAsPaid call has just succeeded on the only period.
C4_Witness ==
    /\ last.op = "markAsPaid" /\ last.result = "ok"
    /\ Exists(last.id) /\ StatusOf(last.id) = "PAID"

\* C5: for every pay period and employee there is at most one
\* PayCalculation referencing that pair.
C5_AtMostOnePerPair ==
    \A i \in 1..Len(calcs) : \A j \in 1..Len(calcs) :
        (i # j) => ~(/\ calcs[i].payPeriodId = calcs[j].payPeriodId
                     /\ calcs[i].userId = calcs[j].userId)

\* The rows a run (the request numbered req) has written, before and
\* after the step.
RowsOfRun(req) == {i \in 1..Len(calcs) : calcs[i].run = req}
RowsOfRunAfter(req) == {i \in 1..Len(calcs') : calcs'[i].run = req}

\* C6: when a calculatePayroll run returns normally, the period's status
\* is COMPLETED, the returned count is the number of PayCalculation rows
\* the run created, and no two of them are for the same employee.
C6_RunCompletes ==
    [][\A p \in Procs :
          (proc[p].pc = "calc_loop" /\ proc'[p].pc = "idle" /\ last'.result = "ok")
          => /\ last'.op = "calculatePayroll" /\ last'.id = proc[p].id
             /\ \E x \in periods' : x.id = proc[p].id /\ x.status = "COMPLETED"
             /\ last'.ret = Cardinality(RowsOfRunAfter(proc[p].req))
             /\ \A i \in RowsOfRunAfter(proc[p].req) :
                   /\ calcs'[i].payPeriodId = proc[p].id
                   /\ \A j \in RowsOfRunAfter(proc[p].req) :
                         (i # j) => calcs'[i].userId # calcs'[j].userId]_vars

\* C6 witness: a run has just returned the count 2, with two rows stored.
C6_Witness ==
    /\ AllIdle
    /\ last.op = "calculatePayroll" /\ last.result = "ok" /\ last.ret = 2
    /\ Len(calcs) = 2

\* C7: with one request at a time, when a step of the loop throws the run
\* writes nothing for the failing employee, goes to the catch block and
\* ends there: the status is set back to DRAFT, the error is rethrown, and
\* the rows written for the earlier employees of the run, and only those,
\* are stored.
C7_FailureRollsBack ==
    [][\A p \in Procs :
          /\ (proc[p].pc = "calc_loop" /\ proc'[p].pc = "calc_catch")
                => (calcs' = calcs /\ periods' = periods)
          /\ (proc[p].pc = "calc_catch" /\ proc'[p] # proc[p])
                => /\ proc'[p].pc = "idle"
                   /\ last'.op = "calculatePayroll" /\ last'.id = proc[p].id
                   /\ last'.result = "Error"
                   /\ \E x \in periods' : x.id = proc[p].id /\ x.status = "DRAFT"
                   /\ calcs' = calcs
                   /\ Cardinality(RowsOfRun(proc[p].req)) = proc[p].count
                   /\ \A i \in RowsOfRun(proc[p].req) :
                         \E k \in 1..(proc[p].idx - 1) :
                             proc[p].employees[k] = calcs[i].userId]_vars

\* C7 witness: the first run on a period failed at its second employee;
\* the first employee's row is stored and the period is DRAFT again.
C7_Witness ==
    /\ AllIdle /\ nreq = 2
    /\ last.op = "calculatePayroll" /\ last.result = "Error"
    /\ Len(calcs) = 1
    /\ Exists(last.id) /\ StatusOf(last.id) = "DRAFT"

\* C8: with one request at a time, a run has written no row before its
\* PROCESSING write, every row is written by a run that is between its
\* PROCESSING write and its final status write, and the status reads
\* PROCESSING at every point between those two writes.
InRun(p) == proc[p].pc \in {"calc_loop", "calc_catch"}

C8_ProcessingWindow ==
    [][/\ \A p \in Procs :
            /\ InRun(p) => (Exists(proc[p].id) /\ StatusOf(proc[p].id) = "PROCESSING")
            /\ proc[p].pc = "calc_processing" => RowsOfRun(proc[p].req) = {}
       /\ (calcs' # calcs /\ Len(calcs') > Len(calcs))
            => \E p \in Procs :
                  /\ proc[p].pc = "calc_loop" /\ proc'[p].pc = "calc_loop"
                  /\ calcs' = Append(calcs, calcs'[Len(calcs')])
                  /\ calcs'[Len(calcs')].run = proc[p].req
                  /\ periods' = periods]_vars

\* C8 witness: a run has written a row and has not yet written its final
\* status; the period reads PROCESSING.
C8_Witness ==
    \E p \in Procs :
        /\ proc[p].pc = "calc_loop" /\ proc[p].count >= 1
        /\ StatusOf(proc[p].id) = "PROCESSING"

\* The three conditions of C9, read off the tables.
ActiveFor(u, P) ==
    \/ users[u].terminationDate = None
    \/ users[u].terminationDate[1] > P.endDate
HasCompletedClockIn(u, P) ==
    \E i \in 1..Len(timeClocks) :
        /\ timeClocks[i].userId = u
        /\ timeClocks[i].clockOutTime # None
        /\ P.startDate <= timeClocks[i].clockInTime
        /\ timeClocks[i].clockInTime <= P.endDate
RateSet(u) == users[u].payRate # None
RateNonZero(u) == users[u].payRate # None /\ users[u].payRate[1] # 0

\* C9 as stated: a run that returns normally has created a row for
\* employee e exactly when e is active for the period, has an hourly rate
\* set and has a completed time-clock record clocked in within the period;
\* the others are not counted.
C9_RowIffRateSet ==
    [][\A p \in Procs :
          (proc[p].pc = "calc_loop" /\ proc'[p].pc = "idle" /\ last'.result = "ok")
          => LET P == proc[p].payPeriod
                 due == {u \in DOMAIN users :
                            ActiveFor(u, P) /\ RateSet(u) /\ HasCompletedClockIn(u, P)}
             IN  /\ {calcs'[i].userId : i \in RowsOfRunAfter(proc[p].req)} = due
                 /\ last'.ret = Cardinality(due)]_vars

\* C9 amended: the same, with "has a non-zero hourly rate set".
C9_RowIffRateNonZero ==
    [][\A p \in Procs :
          (proc[p].pc = "calc_loop" /\ proc'[p].pc = "idle" /\ last'.result = "ok")
          => LET P == proc[p].payPeriod
                 due == {u \in DOMAIN users :
                            ActiveFor(u, P) /\ RateNonZero(u)
                            /\ HasCompletedClockIn(u, P)}
             IN  /\ {calcs'[i].userId : i \in RowsOfRunAfter(proc[p].req)} = due
                 /\ last'.ret = Cardinality(due)]_vars

\* C9 witness: a run has returned on a period that ends on u2's
\* termination date and starts after u2's record: u1 alone got a row.
C9_Witness ==
    /\ AllIdle
    /\ last.op = "calculatePayroll" /\ last.result = "ok" /\ last.ret = 1
    /\ Exists(last.id) /\ Period(last.id).endDate = 3
    /\ \E i \in 1..Len(calcs) :
          calcs[i].payPeriodId = last.id /\ calcs[i].userId = "u1"

\* The sum of the amounts of the PayAdjustment rows of calculation c.
RECURSIVE AdjustmentSum(_, _)
AdjustmentSum(c, i) ==
    IF i > Len(adjustments) THEN 0
    ELSE (IF adjustments[i].payCalculationId = c THEN adjustments[i].amount ELSE 0)
         + AdjustmentSum(c, i + 1)

\* C10: whenever no request is in progress, every stored PayCalculation
\* has grossPay = regularHours*rate + overtimeHours*rate
\* + holidayHours*rate*1.5 + the sum of its adjustments' amounts.
C10_GrossPayRecomputable ==
    AllIdle =>
        \A c \in 1..Len(calcs) :
            LET rate == users[calcs[c].userId].payRate[1] IN
            calcs[c].grossPay =
                calcs[c].regularHours * rate
                + calcs[c].overtimeHours * rate
                + (calcs[c].holidayHours * rate * 3) \div 2
                + AdjustmentSum(c, 1)

\* The hours formula of a stored calculation (grossPay as first written).
BaseGross(c) ==
    GrossPay(calcs[c], Val(users[calcs[c].userId].payRate))

\* C11: in every state where no addAdjustment call is between its two
\* writes - in particular after a call whose first or second write has
\* failed - the amounts of the PayAdjustment rows of each calculation and
\* the increments applied to its grossPay are the same.
C11_AdjustmentAtomic ==
    (\A p \in Procs : proc[p].pc # "adj_increment") =>
        \A c \in 1..Len(calcs) :
            calcs[c].grossPay - BaseGross(c) = AdjustmentSum(c, 1)

\* C12: with one request at a time, addAdjustment(c, amount) fails with
\* NotFoundError when calculation c does not exist and with ValidationError
\* when its period is PAID, writing nothing in either case; otherwise its
\* first write appends exactly one PayAdjustment (c, amount) and its second
\* write adds amount to c's grossPay, and a call that returns normally has
\* changed nothing else: not the hours of c, not another calculation, not
\* a pay period.
C12_AddAdjustment ==
    [][/\ (Returned /\ last'.op = "addAdjustment" /\ nreq' # nreq) =>
             LET c == last'.id IN
             /\ UNCHANGED db
             /\ IF c \notin 1..Len(calcs) THEN last'.result = "NotFoundError"
                ELSE /\ StatusOf(calcs[c].payPeriodId) = "PAID"
                     /\ last'.result = "ValidationError"
       /\ \A p \in Procs :
             /\ (proc[p].pc = "idle" /\ proc'[p].pc = "adj_create") =>
                   /\ proc'[p].id \in 1..Len(calcs)
                   /\ StatusOf(calcs[proc'[p].id].payPeriodId) # "PAID"
                   /\ UNCHANGED db
             /\ (proc[p].pc = "adj_create" /\ proc'[p].pc = "adj_increment") =>
                   /\ adjustments' = Append(adjustments,
                          [payCalculationId |-> proc[p].id,
                           amount |-> proc[p].amount * HourUnit])
                   /\ UNCHANGED <<periods, calcs>>
             /\ (proc[p].pc = "adj_increment" /\ last'.result = "ok") =>
                   /\ last'.op = "addAdjustment" /\ last'.id = proc[p].id
                   /\ adjustments[Len(adjustments)] =
                          [payCalculationId |-> proc[p].id,
                           amount |-> proc[p].amount * HourUnit]
                   /\ calcs' = [calcs EXCEPT ![proc[p].id].grossPay =
                                    calcs[proc[p].id].grossPay
                                    + proc[p].amount * HourUnit]
                   /\ UNCHANGED <<periods, adjustments>>]_vars

\* C12 witness: an adjustment of -50 has been added to a calculation: it
\* is the only adjustment and the grossPay is 50 less than the hours give.
C12_Witness ==
    /\ last.op = "addAdjustment" /\ last.result = "ok"
    /\ Len(adjustments) = 1
    /\ adjustments[1] = [payCalculationId |-> last.id, amount |-> (0 - 50) * HourUnit]
    /\ calcs[last.id].grossPay = BaseGross(last.id) - 50 * HourUnit

\* C13: a create request goes on to its insert only with
\* startDate < endDate and otherwise fails at once with ValidationError,
\* storing nothing; the insert stores exactly one new period with the
\* request's dates and type, and with status DRAFT when the request names
\* no status, so the stored period has startDate < endDate.
C13_Create ==
    [][/\ (Returned /\ last'.op = "create" /\ nreq' # nreq) =>
             (last'.result = "ValidationError" /\ UNCHANGED db)
       /\ \A p \in Procs :
             /\ (proc[p].pc = "idle" /\ proc'[p].pc = "create_write") =>
                   (proc'[p].dto.startDate < proc'[p].dto.endDate /\ UNCHANGED db)
             /\ (proc[p].pc = "create_write" /\ proc'[p].pc = "idle") =>
                   LET dto == proc[p].dto IN
                   /\ last'.op = "create" /\ last'.result = "ok"
                   /\ ~Exists(last'.id)
                   /\ \E x \in periods' :
                         /\ periods' = periods \cup {x}
                         /\ x.id = last'.id
                         /\ x.startDate = dto.startDate /\ x.endDate = dto.endDate
                         /\ x.type = dto.type
                         /\ x.startDate < x.endDate
                         /\ (dto.status = None) => (x.status = "DRAFT")
                         /\ (dto.status # None) => (x.status = Val(dto.status))]_vars

\* C13 witness: a create has just stored its period, in status DRAFT.
C13_Witness ==
    /\ last.op = "create" /\ last.result = "ok"
    /\ Exists(last.id) /\ StatusOf(last.id) = "DRAFT"
    /\ Period(last.id).startDate < Period(last.id).endDate

\* C14: for every stored period x and every new range with
\* startDate < endDate, the three-way test is true of x exactly when x and
\* the new range intersect as closed intervals; accordingly a create goes
\* on to its insert only when no stored period intersects its range, and
\* the overlap step of an update rejects exactly when a period other than
\* the updated one intersects the new range.
C14_ThreeWayIsIntersection ==
    /\ [](\A x \in periods : \A s \in Dates : \A e \in Dates :
            (s < e) =>
               (OverlapsRow(x, s, e)
                  <=> (x.startDate <= e /\ s <= x.endDate)))
    /\ [][\A p \in Procs :
            /\ (proc[p].pc = "idle" /\ proc'[p].pc = "create_write") =>
                  \A x \in periods : ~Intersect(x, proc'[p].dto)
            /\ (proc[p].pc = "update_overlap" /\ proc'[p] # proc[p]) =>
                  LET new == [startDate |-> proc[p].startDateTime,
                              endDate |-> proc[p].endDateTime]
                  IN  (proc'[p].pc = "idle" /\ last'.result = "ValidationError")
                         <=> \E x \in periods :
                                x.id # proc[p].id /\ Intersect(x, new)]_vars

\* C14 witness: a create has just been rejected while the stored period
\* [0, 3] strictly contains the range [1, 2], which the test reports.
C14_Witness ==
    /\ last.op = "create" /\ last.result = "ValidationError"
    /\ \E x \in periods :
          /\ x.startDate = 0 /\ x.endDate = 3
          /\ x.startDate < 1 /\ 2 < x.endDate
          /\ OverlapsRow(x, 1, 2)

\* C15: with one request at a time, an update of a missing period fails
\* with NotFoundError; an update that names startDate, endDate or type goes
\* past its first checks only if the period owns no calculation or is
\* DRAFT, and an update that stops at its first checks fails with
\* NotFoundError or ValidationError and changes nothing; an update that
\* names a date goes through the overlap step, which rejects it exactly
\* when a period other than the updated one overlaps the new range.
C15_Update ==
    [][/\ (Returned /\ last'.op = "update" /\ nreq' # nreq) =>
             /\ UNCHANGED db
             /\ IF Exists(last'.id) THEN last'.result = "ValidationError"
                ELSE last'.result = "NotFoundError"
       /\ \A p \in Procs :
             /\ (proc[p].pc = "idle"
                 /\ proc'[p].pc \in {"update_overlap", "update_write"}) =>
                   LET id == proc'[p].id
                       dto == proc'[p].dto
                       datesGiven == dto.startDate # None \/ dto.endDate # None
                   IN  /\ Exists(id) /\ UNCHANGED db
                       /\ (datesGiven \/ dto.type # None) =>
                             (CalcsOf(id) = {} \/ StatusOf(id) = "DRAFT")
                       /\ datesGiven <=> (proc'[p].pc = "update_overlap")
             /\ (proc[p].pc = "update_overlap" /\ proc'[p] # proc[p]) =>
                   /\ UNCHANGED db
                   /\ IF \E x \in periods :
                            /\ x.id # proc[p].id
                            /\ x.startDate <= proc[p].endDateTime
                            /\ proc[p].startDateTime <= x.endDate
                      THEN proc'[p].pc = "idle" /\ last'.result = "ValidationError"
                      ELSE proc'[p].pc = "update_write"]_vars

\* C15 witness: an update has just been refused on a period that owns a
\* calculation and is not DRAFT, and the period is as it was created.
C15_Witness ==
    /\ last.op = "update" /\ last.result = "ValidationError"
    /\ Exists(last.id) /\ CalcsOf(last.id) # {} /\ StatusOf(last.id) = "COMPLETED"

\* C16: under any interleaving of create, delete and calculatePayroll, a
\* delete that finds the period missing fails with NotFoundError and one
\* that finds it owning a calculation fails with ValidationError, removing
\* nothing; a pay period leaves the table only in the write of a delete,
\* and only while no calculation references it; and in every state every
\* stored PayCalculation references a stored pay period.
C16_Delete ==
    /\ [](\A c \in 1..Len(calcs) : Exists(calcs[c].payPeriodId))
    /\ [][/\ (Returned /\ last'.op = "delete" /\ nreq' # nreq) =>
                /\ UNCHANGED db
                /\ IF ~Exists(last'.id) THEN last'.result = "NotFoundError"
                   ELSE /\ CalcsOf(last'.id) # {}
                        /\ last'.result = "ValidationError"
          /\ \A x \in periods :
                (\A y \in periods' : y.id # x.id) =>
                   /\ CalcsOf(x.id) = {}
                   /\ calcs' = calcs
                   /\ \E p \in Procs :
                         /\ proc[p].pc = "delete_write" /\ proc[p].id = x.id
                         /\ proc'[p].pc = "idle"
                         /\ last'.op = "delete" /\ last'.result = "ok"
          /\ \A p \in Procs :
                (proc[p].pc = "delete_write" /\ proc'[p].pc = "idle"
                 /\ last'.result # "ok") => UNCHANGED db]_vars

\* C16 witness: a delete that had read the period without calculations
\* has been refused at its write, a payroll run having stored a
\* calculation for the period in between.
C16_Witness ==
    /\ last.op = "delete" /\ last.result = "Error"
    /\ Exists(last.id) /\ CalcsOf(last.id) # {}

\* The call of calculateEmployeePay that has returned, and its records.
Paid == proc[1].pc = "paid"
PaidClocks == proc[1].timeClocks

\* The sum of totalMinutes/60 over the records of tcs at the indices in
\* keep.
RECURSIVE SumHours(_, _, _)
SumHours(tcs, keep, i) ==
    IF i > Len(tcs) THEN 0
    ELSE (IF i \in keep THEN tcs[i].totalMinutes[1] * (HourUnit \div MinutesPerHour)
          ELSE 0)
         + SumHours(tcs, keep, i + 1)

\* Records on an OVERTIME schedule; records on a day of the holiday table;
\* records whose schedule is flagged as a statutory holiday.
OnOvertimeSchedule(tcs) ==
    {i \in 1..Len(tcs) :
        tcs[i].schedule # None /\ tcs[i].schedule[1].scheduleType = "OVERTIME"}
OnTableHoliday(tcs) ==
    {i \in 1..Len(tcs) :
        \E h \in holidays : tcs[i].clockInTime \div TicksPerDay = h \div TicksPerDay}
OnFlaggedSchedule(tcs) ==
    {i \in 1..Len(tcs) :
        tcs[i].schedule # None /\ tcs[i].schedule[1].isStatutoryHoliday}

\* C17 as stated: with overtimeEnabled = false the overtimeHours are the
\* hours of all the records on an OVERTIME schedule, those on a statutory
\* holiday included.
C17_OvertimeIsAllScheduled ==
    (Paid /\ ~proc[1].overtimeEnabled) =>
        last.ret.overtimeHours =
            SumHours(PaidClocks, OnOvertimeSchedule(PaidClocks), 1)

\* C17 amended: with overtimeEnabled = false the overtimeHours are the
\* hours of the records on an OVERTIME schedule that are not holiday
\* records (neither on a day of the holiday table nor flagged), and the
\* three kinds of hours add up to the hours of all records: nothing is
\* reweighted by a daily or weekly rule.
C17_OvertimeIsScheduledNonHoliday ==
    (Paid /\ ~proc[1].overtimeEnabled) =>
        /\ last.ret.overtimeHours =
              SumHours(PaidClocks,
                       OnOvertimeSchedule(PaidClocks)
                          \ (OnTableHoliday(PaidClocks)
                             \cup OnFlaggedSchedule(PaidClocks)), 1)
        /\ last.ret.regularHours + last.ret.overtimeHours + last.ret.holidayHours
              = SumHours(PaidClocks, 1..Len(PaidClocks), 1)

\* C17 witness: overtime is off, and the records hold an OVERTIME record
\* on a holiday and one on an ordinary day; only the latter is overtime.
C17_Witness ==
    /\ Paid /\ ~proc[1].overtimeEnabled
    /\ OnOvertimeSchedule(PaidClocks) \cap OnTableHoliday(PaidClocks) # {}
    /\ last.ret.overtimeHours = 8 * HourUnit

\* The records of tcs clocked in on day d.
OnDay(tcs, d) == {i \in 1..Len(tcs) : tcs[i].clockInTime \div TicksPerDay = d}
InHolidayTable(d) == \E h \in holidays : h \div TicksPerDay = d

\* The split of a day of h hours (in units of 1/HourUnit hour): regular
\* hours, and overtime-equivalent hours at 1.5x up to 12 hours and 2x
\* beyond.
DayRegular(h) == IF h <= 8 * HourUnit THEN h ELSE 8 * HourUnit
DayOvertime(h) ==
    IF h <= 8 * HourUnit THEN 0
    ELSE IF h <= 12 * HourUnit THEN ((h - 8 * HourUnit) * 3) \div 2
    ELSE (4 * HourUnit * 3) \div 2 + (h - 12 * HourUnit) * 2

\* The sums of the two over the days from d on that are not in the
\* holiday table, h being the sum of all the day's records.
RECURSIVE SumDayRegular(_, _)
SumDayRegular(tcs, d) ==
    IF d > MaxPayDay THEN 0
    ELSE (IF InHolidayTable(d) \/ OnDay(tcs, d) = {} THEN 0
          ELSE DayRegular(SumHours(tcs, OnDay(tcs, d), 1)))
         + SumDayRegular(tcs, d + 1)
RECURSIVE SumDayOvertime(_, _)
SumDayOvertime(tcs, d) ==
    IF d > MaxPayDay THEN 0
    ELSE (IF InHolidayTable(d) \/ OnDay(tcs, d) = {} THEN 0
          ELSE DayOvertime(SumHours(tcs, OnDay(tcs, d), 1)))
         + SumDayOvertime(tcs, d + 1)

\* C18: with overtimeEnabled = true and a week of at most 40 hours (so
\* that the weekly rule adds nothing), regularHours and overtimeHours are
\* the sums over the days outside the holiday table of the split of the
\* day's total h: h and 0 when h <= 8; 8 and (h-8)*1.5 when 8 < h <= 12;
\* 8 and 4*1.5 + (h-12)*2 when h > 12, h summing all the day's records.
C18_DailyPass ==
    (/\ Paid /\ proc[1].overtimeEnabled
     /\ SumHours(PaidClocks, 1..Len(PaidClocks), 1) <= 40 * HourUnit) =>
        /\ last.ret.regularHours = SumDayRegular(PaidClocks, 0)
        /\ last.ret.overtimeHours = SumDayOvertime(PaidClocks, 0)

\* C18 witness: 13 hours in two records on one ordinary day and nothing
\* else: 8 regular hours and 8 overtime-equivalent hours.
C18_Witness ==
    /\ Paid /\ proc[1].overtimeEnabled
    /\ Len(PaidClocks) = 2
    /\ \E d \in 1..MaxPayDay : OnDay(PaidClocks, d) = {1, 2}
    /\ SumHours(PaidClocks, {1, 2}, 1) = 13 * HourUnit
    /\ last.ret.regularHours = 8 * HourUnit
    /\ last.ret.overtimeHours = 8 * HourUnit

\* Five ordinary days of one 9-hour record each, and no other record.
FiveNines ==
    /\ Paid /\ proc[1].overtimeEnabled
    /\ Len(PaidClocks) = 5
    /\ \A i \in 1..5 :
          /\ PaidClocks[i].totalMinutes = <<9 * 60>>
          /\ PaidClocks[i].clockInTime \div TicksPerDay = i
          /\ i \notin OnFlaggedSchedule(PaidClocks)

\* C19 as stated: five 9-hour days in one week: after the daily pass (40
\* regular, 7.5 overtime-equivalent) the weekly check finds
\* 5 - 5/1.5 = 5/3 additional overtime hours, adds them at 1.5x to
\* overtimeHours (10 in all) and takes them from regularHours (38 1/3).
C19_WeeklyAddsFiveThirds ==
    FiveNines =>
        /\ last.ret.overtimeHours =
              (15 * HourUnit) \div 2 + (((5 * HourUnit) \div 3) * 3) \div 2
        /\ last.ret.regularHours = 40 * HourUnit - (5 * HourUnit) \div 3

\* C19 amended: five 9-hour days in one week: the daily pass gives 40
\* regular and 7.5 overtime-equivalent hours, and the weekly check
\* (45 - 40 = 5) finds max(0, 5 - 7.5/1.5) = 0 additional hours, so the
\* result stays at 40 regular and 7.5 overtime-equivalent hours.
C19_WeeklyAddsNothing ==
    FiveNines =>
        /\ last.ret.overtimeHours = (15 * HourUnit) \div 2
        /\ last.ret.regularHours = 40 * HourUnit
        /\ last.ret.holidayHours = 0
        /\ last.ret.grossPay =
              (40 * HourUnit + (15 * HourUnit) \div 2)
                 * users[proc[1].userId].payRate[1]

\* C19 witness: the five 9-hour days have been calculated: 45 hours in
\* the week, 7.5 overtime-equivalent hours returned.
C19_Witness ==
    /\ FiveNines
    /\ SumHours(PaidClocks, 1..Len(PaidClocks), 1) = 45 * HourUnit
    /\ last.ret.overtimeHours * 2 = 15 * HourUnit

\* The records whose hours calculateEmployeePay adds to holidayHours:
\* those on a day of the holiday table or on a flagged schedule, the
\* employee being eligible for holiday pay on that day.
CountedAsHoliday(userId, tcs) ==
    {i \in OnTableHoliday(tcs) \cup OnFlaggedSchedule(tcs) :
        isEligibleForHolidayPay(userId,
            (tcs[i].clockInTime \div TicksPerDay) * TicksPerDay)}

\* C20: with overtimeEnabled = true the records counted as holiday take no
\* part in the reconciliation: holidayHours is the sum of their hours, and
\* regularHours and overtimeHours are what the calculation returns for the
\* other records alone (the holiday records add to no day's total and to
\* no week's total).
C20_HolidayHoursExcluded ==
    (Paid /\ proc[1].overtimeEnabled) =>
        LET userId == proc[1].userId
            counted == CountedAsHoliday(userId, PaidClocks)
            others == SubSeqAt(PaidClocks, (1..Len(PaidClocks)) \ counted, 1)
            alone == calculateEmployeePay(userId, others,
                         users[userId].payRate[1], TRUE,
                         proc[1].startDate, proc[1].endDate)
        IN  /\ last.ret.holidayHours = SumHours(PaidClocks, counted, 1)
            /\ last.ret.regularHours = alone.regularHours
            /\ last.ret.overtimeHours = alone.overtimeHours

\* C21: the regularHours, overtimeHours and holidayHours that
\* calculateEmployeePay returns are all >= 0, for every employee, either
\* value of overtimeEnabled and every set of records.
C21_HoursNonNegative ==
    Paid =>
        /\ last.ret.regularHours >= 0
        /\ last.ret.overtimeHours >= 0
        /\ last.ret.holidayHours >= 0

\* The calendar days, counted back from the holiday (1 = the day before),
\* of the 30 days before the holiday on which the employee has a completed
\* clock-in.
EligWorkedDays ==
    {k \in 1..EligibilityWindowDays :
        \E i \in 1..Len(proc[1].timeClocks) :
            /\ proc[1].timeClocks[i].userId = proc[1].userId
            /\ IsSome(proc[1].timeClocks[i].clockOutTime)
            /\ DayOf(proc[1].timeClocks[i].clockInTime)
                = DayOf(proc[1].holidayDate) - k}

Answered == proc[1].pc = "answered"

\* C22: isEligibleForHolidayPay answers true exactly when the employee
\* exists, was hired no later than 30 days before the holiday, and has a
\* completed clock-in on at least 15 distinct calendar days of the 30 days
\* before the holiday (two clock-ins on one day count once, a clock-in on
\* the holiday itself does not count); hired 29 days before it answers
\* false, hired exactly 30 days before with 15 days true and with 14 days
\* false, for a missing employee false, and the call changes no table.
C22_Eligibility ==
    /\ [](Answered =>
            /\ last.ret = TRUE <=>
                /\ IsSome(proc[1].user)
                /\ Val(proc[1].user).hireDate
                    <= proc[1].holidayDate - EligibilityWindowDays * TicksPerDay
                /\ Cardinality(EligWorkedDays) >= EligibilityMinDays
            /\ ~IsSome(proc[1].user) => last.ret = FALSE
            /\ (/\ IsSome(proc[1].user)
                /\ Val(proc[1].user).hireDate = proc[1].holidayDate
                        - (EligibilityWindowDays - 1) * TicksPerDay)
                => last.ret = FALSE
            /\ (/\ IsSome(proc[1].user)
                /\ Val(proc[1].user).hireDate = proc[1].holidayDate
                        - EligibilityWindowDays * TicksPerDay)
                => /\ Cardinality(EligWorkedDays) = EligibilityMinDays
                        => last.ret = TRUE
                   /\ Cardinality(EligWorkedDays) = EligibilityMinDays - 1
                        => last.ret = FALSE)
    /\ [][db' = db]_vars

\* Hired exactly 30 days before the holiday, 15 distinct days worked out of
\* 16 clock-ins in the window and two more on the holiday: eligible.
C22_Witness ==
    /\ Answered
    /\ IsSome(proc[1].user)
    /\ Val(proc[1].user).hireDate = proc[1].holidayDate
            - EligibilityWindowDays * TicksPerDay
    /\ Cardinality(EligWorkedDays) = EligibilityMinDays
    /\ Cardinality(ClockInsWorked(proc[1].timeClocks, proc[1].userId,
            thirtyDaysBefore(proc[1].holidayDate), proc[1].holidayDate))
        = EligibilityMinDays + 1
    /\ \E i \in 1..Len(proc[1].timeClocks) :
            proc[1].timeClocks[i].clockInTime = proc[1].holidayDate
    /\ last.ret = TRUE

\* The employee has a non-zero pay rate and a completed clock-in within the
\* period: the run's loop reaches payCalculation.create for them.
ReachesCreate(employee, payPeriod) ==
    /\ IsSome(users[employee].payRate)
    /\ Val(users[employee].payRate) # 0
    /\ FindTimeClocks(employee, payPeriod.startDate, payPeriod.endDate) # <<>>

\* C23: runs on one period are not serialised.  A calculatePayroll request
\* is turned away on arrival only when the period does not exist, also
\* while another run on the period is in progress; and every loop
\* iteration that completes for an employee with a pay rate and completed
\* clock-ins appends a PayCalculation for (period, employee), whatever rows
\* the table already holds.  So two interleaved runs on one DRAFT period
\* without calculations leave two rows for one (period, employee).
C23_RunsNotSerialised ==
    [][/\ (/\ last' # last
           /\ last'.op = "calculatePayroll"
           /\ \E p \in Procs : proc[p].pc = "idle" /\ proc'[p] # proc[p])
            => ~Exists(last'.id)
       /\ \A p \in Procs :
            (/\ proc[p].pc = "calc_loop"
             /\ proc'[p].pc = "calc_loop"
             /\ proc'[p].idx = proc[p].idx + 1
             /\ ReachesCreate(proc[p].employees[proc[p].idx], proc[p].payPeriod))
            => /\ Len(calcs') = Len(calcs) + 1
               /\ SubSeq(calcs', 1, Len(calcs)) = calcs
               /\ calcs'[Len(calcs')].payPeriodId = proc[p].id
               /\ calcs'[Len(calcs')].userId
                    = proc[p].employees[proc[p].idx]
               /\ calcs'[Len(calcs')].run = proc[p].req]_vars

\* One period created, two runs on it both in their loops, and two rows
\* for one (period, employee), one from each run.
C23_Witness ==
    /\ nreq = 3
    /\ Cardinality(periods) = 1
    /\ proc[1].pc = "calc_loop"
    /\ proc[2].pc = "calc_loop"
    /\ proc[1].id = proc[2].id
    /\ proc[1].payPeriod.status = "DRAFT"
    /\ proc[2].payPeriod.status = "DRAFT"
    /\ Len(calcs) = 2
    /\ calcs[1].payPeriodId = proc[1].id
    /\ calcs[2].payPeriodId = proc[1].id
    /\ calcs[1].userId = calcs[2].userId
    /\ calcs[1].run # calcs[2].run

\* The records of tcs that have both a clockOutTime and a totalMinutes.
WithMinutes(tcs) ==
    SubSeqAt(tcs, {i \in 1..Len(tcs) : /\ IsSome(tcs[i].clockOutTime)
                                      /\ IsSome(tcs[i].totalMinutes)}, 1)

C25_CalculatedPeriodFrozen ==
    [][\A x \in periods :
          (CalcsOf(x.id) # {} /\ Exists(x.id)')
          => /\ Period(x.id)'.startDate = x.startDate
             /\ Period(x.id)'.endDate = x.endDate
             /\ Period(x.id)'.type = x.type]_vars

\* C26: a period whose status is PAID is write-locked, under every
\* interleaving of addAdjustment, markAsPaid, calculatePayroll and update:
\* no step adds a PayAdjustment for one of its calculations, changes the
\* grossPay of one, or adds a PayCalculation to it.
C26_PaidPeriodLocked ==
    [][\A x \in periods :
          x.status = "PAID"
          => /\ CalcsOf(x.id)' = CalcsOf(x.id)
             /\ \A c \in CalcsOf(x.id) :
                  /\ calcs'[c].grossPay = calcs[c].grossPay
                  /\ {i \in 1..Len(adjustments') :
                          adjustments'[i].payCalculationId = c}
                     = {i \in 1..Len(adjustments) :
                          adjustments[i].payCalculationId = c}]_vars

\* C27: no hour is dropped or counted twice.  When no day of the records
\* totals more than 8 hours and their week no more than 40, regularHours
\* + overtimeHours + holidayHours is the sum of totalMinutes/60 over the
\* records, with overtimeEnabled true or false, also for records on a
\* holiday the employee is not eligible for and for records whose schedule
\* alone is flagged as a holiday.
C27_HoursConserved ==
    (/\ Paid
     /\ \A d \in PayDays :
            SumHours(PaidClocks, OnDay(PaidClocks, d), 1)
                <= DailyRegularHours * HourUnit
     /\ SumHours(PaidClocks, 1..Len(PaidClocks), 1)
            <= WeeklyRegularHours * HourUnit)
    => last.ret.regularHours + last.ret.overtimeHours + last.ret.holidayHours
        = SumHours(PaidClocks, 1..Len(PaidClocks), 1)

\* The hours of the records of chronological list tcs in the week that
\* starts on day d.
WeekHours(tcs, d) ==
    SumHours(tcs, {i \in 1..Len(tcs) :
                      getWeekStart(tcs[i].clockInTime) = d}, 1)

C29_WrittenWhileProcessing ==
    [][\A x \in periods :
          CalcsOf(x.id)' # CalcsOf(x.id) => x.status = "PROCESSING"]_vars

====
